---- MODULE Spec2Model ----
(***************************************************************************)
(* Model of the pump report generator in src/app.py: sheet ingestion and   *)
(* type detection (analyze_pump_data, determine_pump_type), the amperage   *)
(* and efficiency analyses, and the text report.                           *)
(*                                                                         *)
(* A sheet is [label, columns, rows]: label is the sheet name as a         *)
(* sequence of characters, columns the set of stripped header names, rows  *)
(* a sequence of functions from the columns to numeric cells.  Cells are   *)
(* integer-valued readings.  Results of float division are kept as binary  *)
(* floats [m, e] (value m * 2^e) rounded to MantBits significant bits,     *)
(* round-half-to-even, as IEEE-754 arithmetic does with 53 bits.           *)
(***************************************************************************)
EXTENDS Integers, Sequences, FiniteSets, TLC

VARIABLES workbook, pc, pump_data, total_pumps, amp_analysis,
          efficiency_ranges, total_individual_pumps,
          tandem_matching_analysis, report

vars == <<workbook, pc, pump_data, total_pumps, amp_analysis,
          efficiency_ranges, total_individual_pumps,
          tandem_matching_analysis, report>>

(***************************************************************************)
(* Bounds                                                                  *)
(***************************************************************************)
MaxTables == 2
MaxRows == 2
MantBits == 12

(***************************************************************************)
(* Generic helpers                                                         *)
(***************************************************************************)
Abs(x) == IF x < 0 THEN -x ELSE x
Max2(a, b) == IF a >= b THEN a ELSE b
Min2(a, b) == IF a <= b THEN a ELSE b

RECURSIVE Pow2(_)
Pow2(n) == IF n <= 0 THEN 1 ELSE 2 * Pow2(n - 1)

RECURSIVE Pow10(_)
Pow10(n) == IF n <= 0 THEN 1 ELSE 10 * Pow10(n - 1)

(***************************************************************************)
(* Binary floating point with MantBits significant bits.                  *)
(* A float is [m, e] with value m * 2^e; m = 0 or 2^(MantBits-1) <= m <    *)
(* 2^MantBits.                                                             *)
(***************************************************************************)
FZero == [m |-> 0, e |-> 0]

\* 2^MantBits and 2^(MantBits-1)
MantTop == Pow2(MantBits)
MantLow == Pow2(MantBits - 1)

\* number of right shifts that bring n below 2^MantBits
RECURSIVE ShiftDown(_)
ShiftDown(n) == IF n < MantTop THEN 0 ELSE 1 + ShiftDown(n \div 2)

\* number of left shifts that bring n (> 0) up to 2^(MantBits-1)
RECURSIVE ShiftUp(_)
ShiftUp(n) == IF n >= MantLow THEN 0 ELSE 1 + ShiftUp(2 * n)

\* q (+1 when the remainder r out of d is above half, or half and q odd)
RoundHalfEven(q, r, d) ==
    IF 2 * r > d \/ (2 * r = d /\ q % 2 = 1) THEN q + 1 ELSE q

\* the float nearest to n * 2^e, n a natural number
FNorm(n, e) ==
    IF n = 0 THEN FZero
    ELSE IF n < MantTop
         THEN [m |-> n * Pow2(ShiftUp(n)), e |-> e - ShiftUp(n)]
         ELSE LET j == ShiftDown(n)
                  d == Pow2(j)
                  q == RoundHalfEven(n \div d, n % d, d)
              IN  IF q = MantTop
                  THEN [m |-> MantLow, e |-> e + j + 1]
                  ELSE [m |-> q, e |-> e + j]

\* an integer reading as a float (readings are exactly representable)
FromInt(n) == FNorm(n, 0)

\* a / b, correctly rounded; b # 0
FDiv(a, b) ==
    IF a.m = 0 THEN FZero
    ELSE LET s == IF a.m >= b.m THEN MantBits - 1 ELSE MantBits
             n == a.m * Pow2(s)
             q == RoundHalfEven(n \div b.m, n % b.m, b.m)
             e == a.e - b.e - s
         IN  IF q = MantTop
             THEN [m |-> MantLow, e |-> e + 1]
             ELSE [m |-> q, e |-> e]

\* a * k for a small natural k, correctly rounded
FMulInt(a, k) == FNorm(a.m * k, a.e)

\* |a - b|, correctly rounded; a, b >= 0
FAbsSub(a, b) ==
    IF a = b THEN FZero
    ELSE IF a.m = 0 THEN b
    ELSE IF b.m = 0 THEN a
    ELSE LET aBig == a.e > b.e \/ (a.e = b.e /\ a.m > b.m)
             big == IF aBig THEN a ELSE b
             small == IF aBig THEN b ELSE a
             sh == big.e - small.e
         IN  IF sh >= MantBits + 2 THEN big
             ELSE FNorm(big.m * Pow2(sh) - small.m, small.e)

\* a > b for floats a, b >= 0
FGt(a, b) ==
    IF a.m = 0 THEN FALSE
    ELSE IF b.m = 0 THEN TRUE
    ELSE a.e > b.e \/ (a.e = b.e /\ a.m > b.m)

FGe(a, b) == a = b \/ FGt(a, b)

\* the value of an integer-valued float
FToInt(a) == IF a.e >= 0 THEN a.m * Pow2(a.e) ELSE a.m \div Pow2(-a.e)

\* f"{x:.{d}f}": the decimal rendering, as the integer x * 10^d rounded
\* half-to-even
Fmt(a, d) ==
    IF a.e >= 0 THEN a.m * Pow2(a.e) * Pow10(d)
    ELSE LET n == a.m * Pow10(d)
             den == Pow2(-a.e)
         IN  RoundHalfEven(n \div den, n % den, den)

(***************************************************************************)
(* Sheet names: str.lower() and the substring test                         *)
(***************************************************************************)
UpperCase == <<"A","B","C","D","E","F","G","H","I","J","K","L","M",
               "N","O","P","Q","R","S","T","U","V","W","X","Y","Z">>
LowerCase == <<"a","b","c","d","e","f","g","h","i","j","k","l","m",
               "n","o","p","q","r","s","t","u","v","w","x","y","z">>

LowerChar(c) ==
    IF \E i \in 1..26 : UpperCase[i] = c
    THEN LowerCase[CHOOSE i \in 1..26 : UpperCase[i] = c]
    ELSE c

Lower(s) == [i \in 1..Len(s) |-> LowerChar(s[i])]

\* sub in s
Contains(sub, s) ==
    \E i \in 1..(Len(s) - Len(sub) + 1) : SubSeq(s, i, i + Len(sub) - 1) = sub

single == <<"s","i","n","g","l","e">>
tandem == <<"t","a","n","d","e","m">>

(***************************************************************************)
(* Column names                                                            *)
(***************************************************************************)
EffP1 == "Eff%P1"
EffP2 == "Eff%P2"
AvgEffP2 == "Avg Eff%P2"
SrNo == "Pump Sr. No"
Amp0P1 == "0 Bar Amp P1"
Amp0P2 == "0 Bar Amp P2"
Amp200P1 == "200 Bar Amp P1"
Amp200P2 == "200 Bar Amp P2"

\* the column names that contain 'P2' and 'Eff%P2'
HasEffP2(col) == col \in {EffP2, AvgEffP2}

\* the cells that match "Eff%|Pump Sr. No"
IsHeaderCell(col) == col \in {EffP1, EffP2, AvgEffP2, SrNo}

(***************************************************************************)
(* determine_pump_type                                                     *)
(***************************************************************************)
\* mutant: counts the readings >= 0
CountPositive_NonNegative(df, col) ==
    Cardinality({i \in 1..Len(df.rows) : df.rows[i][col] >= 0})

\* (df['Eff%P2'] > 0).sum()
CountPositive(df, col) ==
    Cardinality({i \in 1..Len(df.rows) : df.rows[i][col] > 0})

\* mutant: the sheet name is tested without lower()
determine_pump_type_CaseSensitive(df, sheet_name) ==
    IF Contains(single, sheet_name) THEN "Single"
    ELSE IF Contains(tandem, sheet_name) THEN "Tandem"
    ELSE IF {col \in df.columns : HasEffP2(col)} # {}
            /\ 2 * (IF EffP2 \in df.columns THEN CountPositive(df, EffP2) ELSE 0)
                 > Len(df.rows)
         THEN "Tandem" ELSE "Single"

\* mutant: 'tandem' is tested before 'single'
determine_pump_type_TandemFirst(df, sheet_name) ==
    IF Contains(tandem, Lower(sheet_name)) THEN "Tandem"
    ELSE IF Contains(single, Lower(sheet_name)) THEN "Single"
    ELSE IF {col \in df.columns : HasEffP2(col)} # {}
            /\ 2 * (IF EffP2 \in df.columns THEN CountPositive(df, EffP2) ELSE 0)
                 > Len(df.rows)
         THEN "Tandem" ELSE "Single"

\* mutant: half of the rows is enough (>= instead of >)
determine_pump_type_AtLeastHalf(df, sheet_name) ==
    IF Contains(single, Lower(sheet_name)) THEN "Single"
    ELSE IF Contains(tandem, Lower(sheet_name)) THEN "Tandem"
    ELSE IF {col \in df.columns : HasEffP2(col)} # {}
            /\ 2 * (IF EffP2 \in df.columns THEN CountPositive(df, EffP2) ELSE 0)
                 >= Len(df.rows)
         THEN "Tandem" ELSE "Single"

determine_pump_type(df, sheet_name) ==
    IF Contains(single, Lower(sheet_name)) THEN "Single"
    ELSE IF Contains(tandem, Lower(sheet_name)) THEN "Tandem"
    ELSE LET p2_columns == {col \in df.columns : HasEffP2(col)}
         IN  IF p2_columns # {}
             THEN LET non_zero_p2_eff ==
                          IF EffP2 \in df.columns
                          THEN CountPositive(df, EffP2) ELSE 0
                  \* non_zero_p2_eff > len(df) * 0.5
                  IN  IF 2 * non_zero_p2_eff > Len(df.rows)
                      THEN "Tandem" ELSE "Single"
             ELSE "Single"

(***************************************************************************)
(* analyze_pump_data: the sheets with a header row, in sheet order         *)
(***************************************************************************)
RECURSIVE IngestSheets(_)
IngestSheets(sheets) ==
    IF sheets = <<>> THEN <<>>
    ELSE LET sheet == sheets[Len(sheets)]
             df == [columns |-> sheet.columns, rows |-> sheet.rows]
             rest == IngestSheets(SubSeq(sheets, 1, Len(sheets) - 1))
         IN  IF \E col \in sheet.columns : IsHeaderCell(col)
             THEN Append(rest, [sheet_name |-> sheet.label,
                                data |-> df,
                                type |-> determine_pump_type(df, sheet.label),
                                count |-> Len(df.rows)])
             ELSE rest

RECURSIVE SumCounts(_)
SumCounts(tables) ==
    IF tables = <<>> THEN 0
    ELSE tables[1].count + SumCounts(Tail(tables))

(***************************************************************************)
(* analyze_amperage                                                        *)
(***************************************************************************)
Inf == 1000000

Conditions == <<"0_bar", "200_bar">>

P1Col(condition) == IF condition = "0_bar" THEN Amp0P1 ELSE Amp200P1
P2Col(condition) == IF condition = "0_bar" THEN Amp0P2 ELSE Amp200P2

AmpInit ==
    [c \in {"0_bar", "200_bar"} |->
        [min |-> Inf, max |-> 0, unit_count |-> 0, tandem_analysis |-> <<>>]]

\* row.get('Pump Sr. No', f'Unit_{idx+1}')
UnitId(df, i) ==
    IF SrNo \in df.columns THEN <<SrNo, df.rows[i][SrNo]>> ELSE <<"Unit_", i>>

\* difference and percentage_diff of one tandem pair
AmpDifference(p1_amp, p2_amp) == FAbsSub(FromInt(p1_amp), FromInt(p2_amp))

\* mutant: the difference is taken relative to the smaller reading
PercentageDiff_OverMin(p1_amp, p2_amp) ==
    FMulInt(FDiv(AmpDifference(p1_amp, p2_amp),
                 FromInt(Min2(p1_amp, p2_amp))), 100)

PercentageDiff(p1_amp, p2_amp) ==
    FMulInt(FDiv(AmpDifference(p1_amp, p2_amp),
                 FromInt(Max2(p1_amp, p2_amp))), 100)

MinOver(S) == CHOOSE x \in S : \A y \in S : x <= y
MaxOver(S) == CHOOSE x \in S : \A y \in S : x >= y

\* mutant: the readings of a Single sheet replace the running min and max
AmpSingle_Overwrite(st, df, condition) ==
    LET col_name == P1Col(condition)
    IN  IF col_name \in df.columns
        THEN LET non_zero_values ==
                     {df.rows[i][col_name] : i \in
                         {j \in 1..Len(df.rows) : df.rows[j][col_name] > 0}}
                 folded ==
                     IF non_zero_values # {}
                     THEN [st EXCEPT !.min = MinOver(non_zero_values),
                                     !.max = MaxOver(non_zero_values)]
                     ELSE st
             IN  [folded EXCEPT !.unit_count = @ + Len(df.rows)]
        ELSE st

\* one condition of a Single sheet
AmpSingle(st, df, condition) ==
    LET col_name == P1Col(condition)
    IN  IF col_name \in df.columns
        THEN LET non_zero_values ==
                     {df.rows[i][col_name] : i \in
                         {j \in 1..Len(df.rows) : df.rows[j][col_name] > 0}}
                 folded ==
                     IF non_zero_values # {}
                     THEN [st EXCEPT !.min = Min2(@, MinOver(non_zero_values)),
                                     !.max = Max2(@, MaxOver(non_zero_values))]
                     ELSE st
             IN  [folded EXCEPT !.unit_count = @ + Len(df.rows)]
        ELSE st

\* mutant: one positive side is enough
RECURSIVE AmpTandemRows_EitherSide(_, _, _, _)
AmpTandemRows_EitherSide(st, df, condition, k) ==
    IF k = 0 THEN st
    ELSE LET prev == AmpTandemRows_EitherSide(st, df, condition, k - 1)
             p1_amp == df.rows[k][P1Col(condition)]
             p2_amp == df.rows[k][P2Col(condition)]
         IN  IF p1_amp > 0 \/ p2_amp > 0
             THEN [prev EXCEPT
                     !.tandem_analysis = Append(@,
                         [unit_id |-> UnitId(df, k),
                          p1_amp |-> p1_amp,
                          p2_amp |-> p2_amp,
                          difference |-> AmpDifference(p1_amp, p2_amp),
                          percentage_diff |-> PercentageDiff(p1_amp, p2_amp)]),
                     !.min = Min2(Min2(@, p1_amp), p2_amp),
                     !.max = Max2(Max2(@, p1_amp), p2_amp)]
             ELSE prev

\* the first k rows of a Tandem sheet folded into one condition
RECURSIVE AmpTandemRows(_, _, _, _)
AmpTandemRows(st, df, condition, k) ==
    IF k = 0 THEN st
    ELSE LET prev == AmpTandemRows(st, df, condition, k - 1)
             p1_amp == df.rows[k][P1Col(condition)]
             p2_amp == df.rows[k][P2Col(condition)]
         IN  IF p1_amp > 0 /\ p2_amp > 0
             THEN [prev EXCEPT
                     !.tandem_analysis = Append(@,
                         [unit_id |-> UnitId(df, k),
                          p1_amp |-> p1_amp,
                          p2_amp |-> p2_amp,
                          difference |-> AmpDifference(p1_amp, p2_amp),
                          percentage_diff |-> PercentageDiff(p1_amp, p2_amp)]),
                     !.min = Min2(Min2(@, p1_amp), p2_amp),
                     !.max = Max2(Max2(@, p1_amp), p2_amp)]
             ELSE prev

\* mutant: the units of a Tandem sheet without the two columns are counted
AmpTandem_CountSkipped(st, df, condition) ==
    IF P1Col(condition) \in df.columns /\ P2Col(condition) \in df.columns
    THEN [AmpTandemRows(st, df, condition, Len(df.rows))
             EXCEPT !.unit_count = @ + Len(df.rows)]
    ELSE [st EXCEPT !.unit_count = @ + Len(df.rows)]

\* mutant: the units of a Tandem sheet are counted by their pumps
AmpTandem_CountPumps(st, df, condition) ==
    IF P1Col(condition) \in df.columns /\ P2Col(condition) \in df.columns
    THEN [AmpTandemRows(st, df, condition, Len(df.rows))
             EXCEPT !.unit_count = @ + 2 * Len(df.rows)]
    ELSE st

\* one condition of a Tandem sheet
AmpTandem(st, df, condition) ==
    IF P1Col(condition) \in df.columns /\ P2Col(condition) \in df.columns
    THEN [AmpTandemRows(st, df, condition, Len(df.rows))
             EXCEPT !.unit_count = @ + Len(df.rows)]
    ELSE st

\* mutant: the no-reading sentinel becomes 0 after each sheet
AmpFoldTable_FinishEach(acc, sheet_data) ==
    [c \in {"0_bar", "200_bar"} |->
        LET st == IF sheet_data.type = "Single"
                  THEN AmpSingle(acc[c], sheet_data.data, c)
                  ELSE AmpTandem(acc[c], sheet_data.data, c)
        IN  IF st.min = Inf THEN [st EXCEPT !.min = 0] ELSE st]

\* the body of the loop over the sheets
AmpFoldTable(acc, sheet_data) ==
    [c \in {"0_bar", "200_bar"} |->
        IF sheet_data.type = "Single"
        THEN AmpSingle(acc[c], sheet_data.data, c)
        ELSE AmpTandem(acc[c], sheet_data.data, c)]

\* the accumulator after the loop over the sheets
RECURSIVE AmpFold(_)
AmpFold(tables) ==
    IF tables = <<>> THEN AmpInit
    ELSE AmpFoldTable(AmpFold(SubSeq(tables, 1, Len(tables) - 1)),
                      tables[Len(tables)])

\* mutant: the no-reading sentinel is returned as it is
AmpFinish_KeepSentinel(acc) == acc

\* Step 5: the no-reading sentinel becomes 0
AmpFinish(acc) ==
    [c \in {"0_bar", "200_bar"} |->
        IF acc[c].min = Inf THEN [acc[c] EXCEPT !.min = 0] ELSE acc[c]]

analyze_amperage(tables) == AmpFinish(AmpFold(tables))

(***************************************************************************)
(* analyze_efficiency_distribution                                         *)
(***************************************************************************)
Bands == {"90_to_92", "92_to_94", "94_plus"}

\* mutant: the upper boundary of a band belongs to the band
BandOf_UpperInclusive(eff) ==
    IF 90 < eff /\ eff <= 92 THEN "90_to_92"
    ELSE IF 92 < eff /\ eff <= 94 THEN "92_to_94"
    ELSE IF eff > 94 THEN "94_plus"
    ELSE "none"

\* the if/elif chain that picks the band of one reading
BandOf(eff) ==
    IF 90 <= eff /\ eff < 92 THEN "90_to_92"
    ELSE IF 92 <= eff /\ eff < 94 THEN "92_to_94"
    ELSE IF eff >= 94 THEN "94_plus"
    ELSE "none"

\* mutant: a reading below 90 is counted in the lowest band
Bump_Below90(ranges, eff) ==
    IF BandOf(eff) \in Bands
    THEN [ranges EXCEPT ![BandOf(eff)] = @ + 1]
    ELSE [ranges EXCEPT !["90_to_92"] = @ + 1]

Bump(ranges, eff) ==
    IF BandOf(eff) \in Bands
    THEN [ranges EXCEPT ![BandOf(eff)] = @ + 1]
    ELSE ranges

EffInit ==
    [ranges |-> [b \in Bands |-> 0], total |-> 0, matches |-> <<>>]

\* row.get(col, 0)
RowGet(df, i, col) == IF col \in df.columns THEN df.rows[i][col] ELSE 0

\* the first k rows of a Single sheet: the positive Eff%P1 readings
RECURSIVE EffSingleRows(_, _, _)
EffSingleRows(st, df, k) ==
    IF k = 0 THEN st
    ELSE LET prev == EffSingleRows(st, df, k - 1)
             eff == df.rows[k][EffP1]
         IN  IF eff > 0
             THEN [prev EXCEPT !.ranges = Bump(@, eff), !.total = @ + 1]
             ELSE prev

\* mutant: every record of a Single sheet counts as a pump
EffSingle_CountRows(st, df) ==
    IF EffP1 \in df.columns
    THEN [EffSingleRows(st, df, Len(df.rows))
             EXCEPT !.total = st.total + Len(df.rows)]
    ELSE st

EffSingle(st, df) ==
    IF EffP1 \in df.columns THEN EffSingleRows(st, df, Len(df.rows)) ELSE st

EffDifference(p1_eff, p2_eff) == FAbsSub(FromInt(p1_eff), FromInt(p2_eff))

\* mutant: the sum is not halved
AverageEff_Sum(p1_eff, p2_eff) == FromInt(p1_eff + p2_eff)

AverageEff(p1_eff, p2_eff) == FDiv(FromInt(p1_eff + p2_eff), FromInt(2))

\* mutant: one positive side is enough
RECURSIVE EffTandemRows_EitherSide(_, _, _)
EffTandemRows_EitherSide(st, df, k) ==
    IF k = 0 THEN st
    ELSE LET prev == EffTandemRows_EitherSide(st, df, k - 1)
             p1_eff == RowGet(df, k, EffP1)
             p2_eff == RowGet(df, k, EffP2)
         IN  IF p1_eff > 0 \/ p2_eff > 0
             THEN [prev EXCEPT
                     !.matches = Append(@,
                         [unit_id |-> UnitId(df, k),
                          p1_eff |-> p1_eff,
                          p2_eff |-> p2_eff,
                          difference |-> EffDifference(p1_eff, p2_eff),
                          average_eff |-> AverageEff(p1_eff, p2_eff)]),
                     !.ranges = Bump(Bump(@, p1_eff), p2_eff),
                     !.total = @ + 2]
             ELSE prev

\* the first k rows of a Tandem sheet
RECURSIVE EffTandemRows(_, _, _)
EffTandemRows(st, df, k) ==
    IF k = 0 THEN st
    ELSE LET prev == EffTandemRows(st, df, k - 1)
             p1_eff == RowGet(df, k, EffP1)
             p2_eff == RowGet(df, k, EffP2)
         IN  IF p1_eff > 0 /\ p2_eff > 0
             THEN [prev EXCEPT
                     !.matches = Append(@,
                         [unit_id |-> UnitId(df, k),
                          p1_eff |-> p1_eff,
                          p2_eff |-> p2_eff,
                          difference |-> EffDifference(p1_eff, p2_eff),
                          average_eff |-> AverageEff(p1_eff, p2_eff)]),
                     !.ranges = Bump(Bump(@, p1_eff), p2_eff),
                     !.total = @ + 2]
             ELSE prev

EffTandem(st, df) == EffTandemRows(st, df, Len(df.rows))

\* mutant: the type of the sheet is determined again from its data
EffFoldTable_RecomputeType(acc, sheet_data) ==
    IF determine_pump_type(sheet_data.data, sheet_data.sheet_name) = "Single"
    THEN EffSingle(acc, sheet_data.data)
    ELSE EffTandem(acc, sheet_data.data)

\* the body of the loop over the sheets
EffFoldTable(acc, sheet_data) ==
    IF sheet_data.type = "Single"
    THEN EffSingle(acc, sheet_data.data)
    ELSE EffTandem(acc, sheet_data.data)

RECURSIVE EffFold(_)
EffFold(tables) ==
    IF tables = <<>> THEN EffInit
    ELSE EffFoldTable(EffFold(SubSeq(tables, 1, Len(tables) - 1)),
                      tables[Len(tables)])

analyze_efficiency_distribution(tables) == EffFold(tables)

(***************************************************************************)
(* generate_report_content: the report is a sequence of lines, each a      *)
(* format string t with the formatted arguments a.                         *)
(***************************************************************************)
Line(t) == [t |-> t, a |-> <<>>]
Line1(t, x) == [t |-> t, a |-> <<x>>]
Line2(t, x, y) == [t |-> t, a |-> <<x, y>>]

\* condition.replace('_', ' ').title()
ConditionName(condition) == IF condition = "0_bar" THEN "0 Bar" ELSE "200 Bar"

\* max(units, key=...): the first unit with the largest key
RECURSIVE WorstAmp(_)
WorstAmp(units) ==
    IF Len(units) = 1 THEN units[1]
    ELSE LET best == WorstAmp(SubSeq(units, 1, Len(units) - 1))
             last == units[Len(units)]
         IN  IF FGt(last.percentage_diff, best.percentage_diff)
             THEN last ELSE best

RECURSIVE WorstEff(_)
WorstEff(units) ==
    IF Len(units) = 1 THEN units[1]
    ELSE LET best == WorstEff(SubSeq(units, 1, Len(units) - 1))
             last == units[Len(units)]
         IN  IF FGt(last.difference, best.difference) THEN last ELSE best

RECURSIVE SumDifferences(_)
SumDifferences(units) ==
    IF units = <<>> THEN 0
    ELSE FToInt(units[1].difference) + SumDifferences(Tail(units))

AmpMismatchThreshold == 10
EffMismatchThreshold == 3

HeaderLines ==
    << Line("PUMP PERFORMANCE TEST REPORT"),
       Line("=================================================="),
       Line("") >>

RECURSIVE ConfigLines(_)
ConfigLines(tables) ==
    IF tables = <<>> THEN <<>>
    ELSE LET data == tables[Len(tables)]
         IN  Append(ConfigLines(SubSeq(tables, 1, Len(tables) - 1)),
                    IF data.type = "Tandem"
                    THEN Line2("{sheet_name}: {count} Tandem units (each with 2 pumps)",
                               data.sheet_name, data.count)
                    ELSE Line2("{sheet_name}: {count} Single pump units",
                               data.sheet_name, data.count))

HasTandem(tables) == \E i \in 1..Len(tables) : tables[i].type = "Tandem"

\* mutant: a Tandem unit is counted twice in the total of units
ConfigSection_TandemTwice(tables, total_efficiency_readings) ==
    << Line("PUMP CONFIGURATION ANALYSIS:"),
       Line("----------------------------") >>
    \o ConfigLines(tables)
    \o << Line1("Total units tested: {total_units}",
                SumCounts(tables)
                  + SumCounts(SelectSeq(tables, LAMBDA d : d.type = "Tandem"))),
          Line1("Total individual pumps: {total_efficiency_readings}",
                total_efficiency_readings),
          Line("") >>

ConfigSection(tables, total_efficiency_readings) ==
    << Line("PUMP CONFIGURATION ANALYSIS:"),
       Line("----------------------------") >>
    \o ConfigLines(tables)
    \o << Line1("Total units tested: {total_units}", SumCounts(tables)),
          Line1("Total individual pumps: {total_efficiency_readings}",
                total_efficiency_readings),
          Line("") >>

\* mutant: a difference of exactly 10% is a mismatch
AmpMatchingLines_AtLeastThreshold(units) ==
    LET mismatched_units ==
            SelectSeq(units, LAMBDA unit :
                FGe(unit.percentage_diff, FromInt(AmpMismatchThreshold)))
    IN  << Line("  Tandem pump matching analysis:"),
           Line1("    - Total tandem units: {}", Len(units)),
           Line1("    - Units with >10% P1/P2 difference: {}",
                 Len(mismatched_units)),
           IF mismatched_units # <<>>
           THEN Line2("    - Worst mismatch: {:.1f}% (Unit {})",
                      Fmt(WorstAmp(mismatched_units).percentage_diff, 1),
                      WorstAmp(mismatched_units).unit_id)
           ELSE Line("    - All tandem units within 10% tolerance") >>

AmpMatchingLines(units) ==
    LET mismatched_units ==
            SelectSeq(units, LAMBDA unit :
                FGt(unit.percentage_diff, FromInt(AmpMismatchThreshold)))
    IN  << Line("  Tandem pump matching analysis:"),
           Line1("    - Total tandem units: {}", Len(units)),
           Line1("    - Units with >10% P1/P2 difference: {}",
                 Len(mismatched_units)),
           IF mismatched_units # <<>>
           THEN Line2("    - Worst mismatch: {:.1f}% (Unit {})",
                      Fmt(WorstAmp(mismatched_units).percentage_diff, 1),
                      WorstAmp(mismatched_units).unit_id)
           ELSE Line("    - All tandem units within 10% tolerance") >>

\* mutant: minimum and maximum are printed whenever units were counted
ConditionBlock_NoMaxTest(st, condition) ==
    << Line1("{condition_name} Conditions:", ConditionName(condition)) >>
    \o (IF st.unit_count > 0
        THEN << Line1("  Minimum amperage: {:.2f} A",
                      Fmt(FromInt(st.min), 2)),
                Line1("  Maximum amperage: {:.2f} A",
                      Fmt(FromInt(st.max), 2)) >>
             \o (IF st.tandem_analysis # <<>>
                 THEN AmpMatchingLines(st.tandem_analysis)
                 ELSE <<>>)
             \o << Line1("  Total units analyzed: {}", st.unit_count) >>
        ELSE << Line("  No data available") >>)
    \o << Line("") >>

\* mutant: the line of the total closes every block
ConditionBlock_AlwaysTotal(st, condition) ==
    << Line1("{condition_name} Conditions:", ConditionName(condition)) >>
    \o (IF st.unit_count > 0
        THEN (IF st.max > 0
              THEN << Line1("  Minimum amperage: {:.2f} A",
                            Fmt(FromInt(st.min), 2)),
                      Line1("  Maximum amperage: {:.2f} A",
                            Fmt(FromInt(st.max), 2)) >>
              ELSE <<>>)
             \o (IF st.tandem_analysis # <<>>
                 THEN AmpMatchingLines(st.tandem_analysis)
                 ELSE <<>>)
        ELSE << Line("  No data available") >>)
    \o << Line1("  Total units analyzed: {}", st.unit_count) >>
    \o << Line("") >>

ConditionBlock(st, condition) ==
    << Line1("{condition_name} Conditions:", ConditionName(condition)) >>
    \o (IF st.unit_count > 0
        THEN (IF st.max > 0
              THEN << Line1("  Minimum amperage: {:.2f} A",
                            Fmt(FromInt(st.min), 2)),
                      Line1("  Maximum amperage: {:.2f} A",
                            Fmt(FromInt(st.max), 2)) >>
              ELSE <<>>)
             \o (IF st.tandem_analysis # <<>>
                 THEN AmpMatchingLines(st.tandem_analysis)
                 ELSE <<>>)
             \o << Line1("  Total units analyzed: {}", st.unit_count) >>
        ELSE << Line("  No data available") >>)
    \o << Line("") >>

\* mutant: a condition without units has no block in the report
AmpSection_SkipEmpty(amp) ==
    << Line("AMPERAGE ANALYSIS:"), Line("------------------") >>
    \o (IF amp["0_bar"].unit_count > 0
        THEN ConditionBlock(amp["0_bar"], "0_bar") ELSE <<>>)
    \o (IF amp["200_bar"].unit_count > 0
        THEN ConditionBlock(amp["200_bar"], "200_bar") ELSE <<>>)

AmpSection(amp) ==
    << Line("AMPERAGE ANALYSIS:"), Line("------------------") >>
    \o ConditionBlock(amp["0_bar"], "0_bar")
    \o ConditionBlock(amp["200_bar"], "200_bar")

\* mutant: a difference of exactly 3 is a mismatch
EffMatchingLines_AtLeastThreshold(units) ==
    LET mismatched_eff_units ==
            SelectSeq(units, LAMBDA unit :
                FGe(unit.difference, FromInt(EffMismatchThreshold)))
        avg_diff == FDiv(FromInt(SumDifferences(units)), FromInt(Len(units)))
    IN  << Line(""),
           Line("TANDEM PUMP MATCHING (P1 vs P2):"),
           Line("---------------------------------"),
           Line1("Total tandem units analyzed: {}", Len(units)),
           Line1("Average efficiency difference: {:.2f}%", Fmt(avg_diff, 2)),
           Line1("Units with >3% efficiency difference: {}",
                 Len(mismatched_eff_units)),
           IF mismatched_eff_units # <<>>
           THEN Line2("Worst efficiency mismatch: {:.2f}% (Unit {})",
                      Fmt(WorstEff(mismatched_eff_units).difference, 2),
                      WorstEff(mismatched_eff_units).unit_id)
           ELSE Line("All tandem units within 3% efficiency tolerance") >>

EffMatchingLines(units) ==
    LET mismatched_eff_units ==
            SelectSeq(units, LAMBDA unit :
                FGt(unit.difference, FromInt(EffMismatchThreshold)))
        avg_diff == FDiv(FromInt(SumDifferences(units)), FromInt(Len(units)))
    IN  << Line(""),
           Line("TANDEM PUMP MATCHING (P1 vs P2):"),
           Line("---------------------------------"),
           Line1("Total tandem units analyzed: {}", Len(units)),
           Line1("Average efficiency difference: {:.2f}%", Fmt(avg_diff, 2)),
           Line1("Units with >3% efficiency difference: {}",
                 Len(mismatched_eff_units)),
           IF mismatched_eff_units # <<>>
           THEN Line2("Worst efficiency mismatch: {:.2f}% (Unit {})",
                      Fmt(WorstEff(mismatched_eff_units).difference, 2),
                      WorstEff(mismatched_eff_units).unit_id)
           ELSE Line("All tandem units within 3% efficiency tolerance") >>

\* mutant: the matching section is written for every report with a Tandem
\* table
EffSection_AnyTandem(tables, ranges, total_efficiency_readings, matches) ==
    << Line("EFFICIENCY ANALYSIS:"),
       Line("--------------------"),
       Line1("Individual pump efficiencies analyzed: {}",
             total_efficiency_readings),
       Line(""),
       Line1("90% - 92%:     {} pumps", ranges["90_to_92"]),
       Line1("92% - 94%:     {} pumps", ranges["92_to_94"]),
       Line1("94% and above: {} pumps", ranges["94_plus"]) >>
    \o (IF HasTandem(tables)
        THEN EffMatchingLines(matches)
        ELSE <<>>)

EffSection(tables, ranges, total_efficiency_readings, matches) ==
    << Line("EFFICIENCY ANALYSIS:"),
       Line("--------------------"),
       Line1("Individual pump efficiencies analyzed: {}",
             total_efficiency_readings),
       Line(""),
       Line1("90% - 92%:     {} pumps", ranges["90_to_92"]),
       Line1("92% - 94%:     {} pumps", ranges["92_to_94"]),
       Line1("94% and above: {} pumps", ranges["94_plus"]) >>
    \o (IF matches # <<>> /\ HasTandem(tables)
        THEN EffMatchingLines(matches)
        ELSE <<>>)

generate_report_content(tables, amp, ranges, total_efficiency_readings, matches) ==
    HeaderLines
    \o ConfigSection(tables, total_efficiency_readings)
    \o AmpSection(amp)
    \o EffSection(tables, ranges, total_efficiency_readings, matches)

(***************************************************************************)
(* Input workbooks                                                         *)
(***************************************************************************)
\* the sheets with exactly n rows; rowsOf maps each admitted set of columns
\* to the rows admitted over it
SheetsOver(labels, rowsOf, n) ==
    UNION {{[label |-> l, columns |-> cs, rows |-> rs] :
               l \in labels, rs \in [1..n -> rowsOf[cs]]} :
           cs \in DOMAIN rowsOf}

\* workbook extends w by at most k sheets holding at most n rows in all;
\* sheet names are unique within a workbook
RECURSIVE Uploaded(_, _, _, _, _)
Uploaded(w, labels, rowsOf, k, n) ==
    \/ workbook = w
    \/ /\ k > 0
       /\ \E j \in 0..n : \E sheet \in SheetsOver(labels, rowsOf, j) :
            /\ \A i \in 1..Len(w) : w[i].label # sheet.label
            /\ Uploaded(Append(w, sheet), labels, rowsOf, k - 1, n - j)

\* at most MaxTables sheets, at most MaxRows rows in all
WorkbookOver(labels, rowsOf) ==
    Uploaded(<<>>, labels, rowsOf, MaxTables, MaxRows)

\* sheet names
LblSingle == <<"S","I","N","G","L","E">>
LblTandem == <<"T","a","n","D","e","m">>
LblBoth == <<"T","a","n","d","e","m","S","i","n","g","l","e">>
LblSheet == <<"S","h","e","e","t","1">>
LblSinglePump == <<"S","i","n","g","l","e","P","u","m","p">>
LblTandemPump == <<"T","a","n","d","e","m","P","u","m","p">>

(***************************************************************************)
(* The run of the main script                                              *)
(***************************************************************************)
InitState ==
    /\ pc = "start"
    /\ pump_data = <<>>
    /\ total_pumps = 0
    /\ amp_analysis = AmpInit
    /\ efficiency_ranges = EffInit.ranges
    /\ total_individual_pumps = 0
    /\ tandem_matching_analysis = <<>>
    /\ report = <<>>

\* pump_data, total_pumps = analyze_pump_data(uploaded_file)
AnalyzePumpData ==
    /\ pc = "start"
    /\ pump_data' = IngestSheets(workbook)
    /\ total_pumps' = SumCounts(IngestSheets(workbook))
    /\ pc' = "ingested"
    /\ UNCHANGED <<workbook, amp_analysis, efficiency_ranges,
                   total_individual_pumps, tandem_matching_analysis, report>>

\* if pump_data and total_pumps > 0
HasPumpData == pump_data # <<>> /\ total_pumps > 0

NoPumpData ==
    /\ pc = "ingested"
    /\ ~HasPumpData
    /\ pc' = "no_data"
    /\ UNCHANGED <<workbook, pump_data, total_pumps, amp_analysis,
                   efficiency_ranges, total_individual_pumps,
                   tandem_matching_analysis, report>>

AnalyzeAmperage ==
    /\ pc = "ingested"
    /\ HasPumpData
    /\ amp_analysis' = analyze_amperage(pump_data)
    /\ pc' = "amp_done"
    /\ UNCHANGED <<workbook, pump_data, total_pumps, efficiency_ranges,
                   total_individual_pumps, tandem_matching_analysis, report>>

AnalyzeEfficiencyDistribution ==
    /\ pc = "amp_done"
    /\ LET result == analyze_efficiency_distribution(pump_data)
       IN  /\ efficiency_ranges' = result.ranges
           /\ total_individual_pumps' = result.total
           /\ tandem_matching_analysis' = result.matches
    /\ pc' = "eff_done"
    /\ UNCHANGED <<workbook, pump_data, total_pumps, amp_analysis, report>>

GenerateReportContent ==
    /\ pc = "eff_done"
    /\ report' = generate_report_content(pump_data, amp_analysis,
                     efficiency_ranges, total_individual_pumps,
                     tandem_matching_analysis)
    /\ pc' = "done"
    /\ UNCHANGED <<workbook, pump_data, total_pumps, amp_analysis,
                   efficiency_ranges, total_individual_pumps,
                   tandem_matching_analysis>>

Next ==
    \/ AnalyzePumpData
    \/ NoPumpData
    \/ AnalyzeAmperage
    \/ AnalyzeEfficiencyDistribution
    \/ GenerateReportContent

(***************************************************************************)
(* Type detection: sheet names of every kind, with and without an Eff%P2   *)
(* column.                                                                 *)
(***************************************************************************)
ClassifyRows ==
    [cs \in {{EffP1}, {EffP1, EffP2}, {EffP1, AvgEffP2}} |->
        IF cs = {EffP1} THEN {(EffP1 :> 92)}
        ELSE IF cs = {EffP1, EffP2}
             THEN {(EffP1 :> 92) @@ (EffP2 :> v) : v \in {-1, 0, 95}}
             ELSE {(EffP1 :> 92) @@ (AvgEffP2 :> 95)}]

InitClassify ==
    /\ WorkbookOver({LblSingle, LblTandem, LblBoth, LblSheet}, ClassifyRows)
    /\ InitState

SpecClassify == InitClassify /\ [][Next]_vars

(***************************************************************************)
(* Efficiency: readings on the band boundaries, below the bands, one-sided *)
(* and empty pairs, sheets without the Eff%P2 column.                      *)
(***************************************************************************)
EffPairs ==
    {<<90, 92>>, <<92, 94>>, <<94, 90>>, <<85, 94>>,
     <<0, 94>>, <<90, 0>>, <<0, 0>>}

EffRows ==
    [cs \in {{EffP1, EffP2}, {EffP1}} |->
        IF cs = {EffP1, EffP2}
        THEN {(EffP1 :> pr[1]) @@ (EffP2 :> pr[2]) : pr \in EffPairs}
        ELSE {(EffP1 :> 93)}]

InitEff ==
    /\ WorkbookOver({LblSinglePump, LblTandemPump, LblSheet}, EffRows)
    /\ InitState

SpecEff == InitEff /\ [][Next]_vars

(***************************************************************************)
(* Amperage: matched, mismatched, one-sided and empty pairs at 0 bar, a    *)
(* pair whose smaller reading is below the rounding of the larger one,     *)
(* sheets with serial numbers and 200 bar readings only.                   *)
(***************************************************************************)
BigAmp == 2 * MantTop

AmpPairs ==
    {<<10, 12>>, <<9, 10>>, <<10, 10>>, <<1, BigAmp>>,
     <<10, 0>>, <<0, 12>>, <<0, 0>>}

Eff9195 == (EffP1 :> 91) @@ (EffP2 :> 95)

AmpRows ==
    [cs \in {{EffP1, EffP2, Amp0P1, Amp0P2},
             {SrNo, EffP1, EffP2, Amp200P1, Amp200P2}} |->
        IF cs = {EffP1, EffP2, Amp0P1, Amp0P2}
        THEN {Eff9195 @@ (Amp0P1 :> pr[1]) @@ (Amp0P2 :> pr[2]) : pr \in AmpPairs}
        ELSE {(SrNo :> 7) @@ Eff9195 @@ (Amp200P1 :> 20) @@ (Amp200P2 :> 30)}]

InitAmp ==
    /\ WorkbookOver({LblSinglePump, LblTandemPump, LblSheet}, AmpRows)
    /\ InitState

SpecAmp == InitAmp /\ [][Next]_vars

(***************************************************************************)
(* The script runs again on the same upload (every widget event reruns it  *)
(* from the top).  Sheets with serial numbers, efficiency differences of 3 *)
(* and 4, 0 bar readings on one side only or on both, units without any   *)
(* reading.                                                                *)
(***************************************************************************)
\* mutant: the total of individual pumps is carried over from the run before
Rerun_CarryOver ==
    /\ pc = "done"
    /\ pump_data' = IngestSheets(workbook)
    /\ total_pumps' = SumCounts(pump_data')
    /\ amp_analysis' = analyze_amperage(pump_data')
    /\ LET result == analyze_efficiency_distribution(pump_data')
       IN  /\ efficiency_ranges' = result.ranges
           /\ total_individual_pumps' = total_individual_pumps + result.total
           /\ tandem_matching_analysis' = result.matches
    /\ report' = generate_report_content(pump_data', amp_analysis',
                     efficiency_ranges', total_individual_pumps',
                     tandem_matching_analysis')
    /\ pc' = "done_again"
    /\ UNCHANGED workbook

Rerun ==
    /\ pc = "done"
    /\ pump_data' = IngestSheets(workbook)
    /\ total_pumps' = SumCounts(pump_data')
    /\ amp_analysis' = analyze_amperage(pump_data')
    /\ LET result == analyze_efficiency_distribution(pump_data')
       IN  /\ efficiency_ranges' = result.ranges
           /\ total_individual_pumps' = result.total
           /\ tandem_matching_analysis' = result.matches
    /\ report' = generate_report_content(pump_data', amp_analysis',
                     efficiency_ranges', total_individual_pumps',
                     tandem_matching_analysis')
    /\ pc' = "done_again"
    /\ UNCHANGED workbook

NextRerun == Next \/ Rerun

ColsOneSide == {SrNo, EffP1, EffP2, Amp0P1, Amp200P1, Amp200P2}
ColsOtherSide == {EffP1, EffP2, Amp0P2}
ColsBothSides == {EffP1, EffP2, Amp0P1, Amp0P2}

\* a unit with serial number sr, efficiencies e1 and e2, 10 A on P1 at 0 bar
\* and 20 A and 30 A at 200 bar
UnitOneSide(sr, e1, e2) ==
    (SrNo :> sr) @@ (EffP1 :> e1) @@ (EffP2 :> e2) @@ (Amp0P1 :> 10)
        @@ (Amp200P1 :> 20) @@ (Amp200P2 :> 30)

RerunRows ==
    [cs \in {ColsOneSide, ColsOtherSide, ColsBothSides} |->
        IF cs = ColsOneSide
        THEN {UnitOneSide(7, 91, 94), UnitOneSide(8, 90, 94),
              UnitOneSide(9, 94, 90)}
        ELSE IF cs = ColsOtherSide
        THEN {Eff9195 @@ (Amp0P2 :> 12)}
        ELSE {Eff9195 @@ (Amp0P1 :> 10) @@ (Amp0P2 :> 12),
              (EffP1 :> 0) @@ (EffP2 :> 0) @@ (Amp0P1 :> 0) @@ (Amp0P2 :> 0)}]

InitRerun ==
    /\ WorkbookOver({LblSinglePump, LblTandemPump, LblSheet}, RerunRows)
    /\ InitState

SpecRerun == InitRerun /\ [][NextRerun]_vars

\* workbooks of sheets with the efficiency columns and the 0 bar amperage
\* columns: two different units with both pumps read, a unit with P1 only
\* and a unit without reading
OrderRows ==
    [cs \in {ColsBothSides} |->
        {Eff9195 @@ (Amp0P1 :> 10) @@ (Amp0P2 :> 12),
         (EffP1 :> 94) @@ (EffP2 :> 90) @@ (Amp0P1 :> 14) @@ (Amp0P2 :> 9),
         (EffP1 :> 93) @@ (EffP2 :> 0) @@ (Amp0P1 :> 8) @@ (Amp0P2 :> 0),
         (EffP1 :> 0) @@ (EffP2 :> 0) @@ (Amp0P1 :> 0) @@ (Amp0P2 :> 0)}]

InitOrder ==
    /\ WorkbookOver({LblSinglePump, LblTandemPump, LblSheet}, OrderRows)
    /\ InitState

SpecOrder == InitOrder /\ [][Next]_vars

(***************************************************************************)
(* Properties                                                              *)
(***************************************************************************)
\* the sheet names of the model that contain "single" / "tandem" in some
\* letter case
NamesSingle == {LblSingle, LblBoth, LblSinglePump}
NamesTandem == {LblTandem, LblBoth, LblTandemPump}

Ingested == 1..Len(pump_data)

\* the number of records of table i with Eff%P2 > 0 (0 without the column)
PositiveP2(i) ==
    IF EffP2 \in pump_data[i].data.columns
    THEN Cardinality({k \in 1..Len(pump_data[i].data.rows) :
                         pump_data[i].data.rows[k][EffP2] > 0})
    ELSE 0

\* C1 as stated: every table whose label contains "tandem" in any letter
\* case is Tandem, whatever its records
C1_AnyTandemLabelIsTandem ==
    \A i \in Ingested :
        pump_data[i].sheet_name \in NamesTandem => pump_data[i].type = "Tandem"

\* C1 amended: every table whose label contains "tandem" in any letter case
\* and does not contain "single" is Tandem, whatever its records (none, no
\* Eff%P2 column, no Eff%P2 > 0)
C1_TandemLabelIsTandem ==
    \A i \in Ingested :
        pump_data[i].sheet_name \in NamesTandem \ NamesSingle
            => pump_data[i].type = "Tandem"

\* a table named "TanDem" with records, none of them with Eff%P2 > 0, is Tandem
C1_Witness ==
    \E i \in Ingested :
        /\ pump_data[i].sheet_name = LblTandem
        /\ pump_data[i].count > 0
        /\ PositiveP2(i) = 0
        /\ pump_data[i].type = "Tandem"

\* C2 as stated: every table with zero records is Single, whatever its label
C2_EmptyIsSingle ==
    \A i \in Ingested : pump_data[i].count = 0 => pump_data[i].type = "Single"

\* C2 amended: every table with zero records is Single, whatever its
\* columns, unless its label contains "tandem" and not "single"
C2_EmptyIsSingleUnlessNamedTandem ==
    \A i \in Ingested :
        (pump_data[i].count = 0
           /\ pump_data[i].sheet_name \notin NamesTandem \ NamesSingle)
            => pump_data[i].type = "Single"

\* an empty table "Sheet1" that has the Eff%P2 column is Single
C2_Witness ==
    \E i \in Ingested :
        /\ pump_data[i].sheet_name = LblSheet
        /\ EffP2 \in pump_data[i].data.columns
        /\ pump_data[i].count = 0
        /\ pump_data[i].type = "Single"

\* C3: the label decides first: "single" in the label gives Single even when
\* the label also contains "tandem" and whatever the records; "tandem" alone
\* gives Tandem; only a label with neither is typed by its records
C3_LabelPriority ==
    \A i \in Ingested :
        /\ pump_data[i].sheet_name \in NamesSingle
              => pump_data[i].type = "Single"
        /\ pump_data[i].sheet_name \in NamesTandem \ NamesSingle
              => pump_data[i].type = "Tandem"
        /\ (pump_data[i].type = "Tandem" /\ PositiveP2(i) = 0)
              => pump_data[i].sheet_name \in NamesTandem
        /\ (pump_data[i].type = "Single"
              /\ 2 * PositiveP2(i) > pump_data[i].count)
              => pump_data[i].sheet_name \in NamesSingle

\* a table named "TandemSingle" whose records all have Eff%P2 > 0 is Single
C3_Witness ==
    \E i \in Ingested :
        /\ pump_data[i].sheet_name = LblBoth
        /\ pump_data[i].count > 0
        /\ PositiveP2(i) = pump_data[i].count
        /\ pump_data[i].type = "Single"

\* C4: a table whose label contains neither "single" nor "tandem" is Tandem
\* exactly when it has the Eff%P2 column and more than half of its records
\* have Eff%P2 > 0
C4_DataThreshold ==
    \A i \in Ingested :
        pump_data[i].sheet_name \notin NamesSingle \cup NamesTandem
            => (pump_data[i].type = "Tandem"
                  <=> (/\ EffP2 \in pump_data[i].data.columns
                       /\ 2 * PositiveP2(i) > pump_data[i].count))

\* a table "Sheet1" with exactly half of its records having Eff%P2 > 0 is
\* Single
C4_Witness ==
    \E i \in Ingested :
        /\ pump_data[i].sheet_name = LblSheet
        /\ pump_data[i].count > 0
        /\ 2 * PositiveP2(i) = pump_data[i].count
        /\ pump_data[i].type = "Single"

(***************************************************************************)
(* Properties of the efficiency analysis                                   *)
(***************************************************************************)
EffDone == pc \in {"eff_done", "done"}

Records(i) == 1..Len(pump_data[i].data.rows)

\* the reading of record k of table i in column col, 0 without the column
Reading(i, k, col) ==
    IF col \in pump_data[i].data.columns
    THEN pump_data[i].data.rows[k][col]
    ELSE 0

SingleTables == {i \in Ingested : pump_data[i].type = "Single"}
TandemTables == {i \in Ingested : pump_data[i].type = "Tandem"}

\* the records of Single tables with Eff%P1 > 0
SinglePositive ==
    UNION {{<<i, k>> : k \in {r \in Records(i) : Reading(i, r, EffP1) > 0}} :
           i \in SingleTables}

\* the records of Tandem tables with Eff%P1 > 0 and Eff%P2 > 0
BothPositive ==
    UNION {{<<i, k>> : k \in {r \in Records(i) :
                                 /\ Reading(i, r, EffP1) > 0
                                 /\ Reading(i, r, EffP2) > 0}} :
           i \in TandemTables}

\* the records of Tandem tables with at most one side positive
NotBothPositive ==
    UNION {{<<i, k>> : k \in {r \in Records(i) :
                                 \/ Reading(i, r, EffP1) <= 0
                                 \/ Reading(i, r, EffP2) <= 0}} :
           i \in TandemTables}

\* the readings that count: <<table, record, column>>
CountedReadings ==
    {<<u[1], u[2], EffP1>> : u \in SinglePositive}
        \cup {<<u[1], u[2], col>> : u \in BothPositive, col \in {EffP1, EffP2}}

ValueOf(r) == Reading(r[1], r[2], r[3])

BandSum ==
    efficiency_ranges["90_to_92"] + efficiency_ranges["92_to_94"]
        + efficiency_ranges["94_plus"]

\* C5 as stated: after the efficiency analysis the total of individual
\* pumps equals the sum of the three band counts
C5_TotalIsBandSum ==
    EffDone => total_individual_pumps = BandSum

\* C5 amended: the total of individual pumps is the number of counted
\* readings, and it equals the sum of the three band counts plus the number
\* of counted readings below 90, which are in no band
C5_TotalIsBandSumPlusBelow90 ==
    EffDone =>
        /\ total_individual_pumps = Cardinality(CountedReadings)
        /\ total_individual_pumps =
               BandSum + Cardinality({r \in CountedReadings : ValueOf(r) < 90})

\* a counted reading below 90: the total exceeds the sum of the bands
C5_Witness ==
    /\ EffDone
    /\ \E r \in CountedReadings : ValueOf(r) < 90
    /\ total_individual_pumps > BandSum

\* C7: a reading on a band boundary is counted in the higher band only: each
\* band holds exactly the counted readings from its lower boundary up to,
\* and not including, the next boundary, for Single readings and for each
\* side of a Tandem pair
C7_BoundaryInHigherBand ==
    EffDone =>
        /\ efficiency_ranges["90_to_92"] =
               Cardinality({r \in CountedReadings : ValueOf(r) \in 90..91})
        /\ efficiency_ranges["92_to_94"] =
               Cardinality({r \in CountedReadings : ValueOf(r) \in 92..93})
        /\ efficiency_ranges["94_plus"] =
               Cardinality({r \in CountedReadings : ValueOf(r) >= 94})

\* a Single reading of 90 and a Tandem pair of 92 and 94 are all the counted
\* readings: one count in each band
C7_Witness ==
    /\ EffDone
    /\ \E s \in SinglePositive : \E t \in BothPositive :
          /\ ValueOf(<<s[1], s[2], EffP1>>) = 90
          /\ ValueOf(<<t[1], t[2], EffP1>>) = 92
          /\ ValueOf(<<t[1], t[2], EffP2>>) = 94
          /\ SinglePositive = {s}
          /\ BothPositive = {t}
    /\ efficiency_ranges = [b \in Bands |-> 1]

\* C8: a record of a Tandem table contributes only when Eff%P1 > 0 and
\* Eff%P2 > 0: the matches are the two-sided records, two readings are
\* counted for each of them and none for any other record of a Tandem table;
\* without any Single reading and any two-sided record nothing is counted
C8_TandemBothSides ==
    EffDone =>
        /\ Len(tandem_matching_analysis) = Cardinality(BothPositive)
        /\ \A j \in 1..Len(tandem_matching_analysis) :
              /\ tandem_matching_analysis[j].p1_eff > 0
              /\ tandem_matching_analysis[j].p2_eff > 0
        /\ total_individual_pumps =
               Cardinality(SinglePositive) + 2 * Cardinality(BothPositive)
        /\ BandSum <= total_individual_pumps
        /\ (SinglePositive = {} /\ BothPositive = {}) =>
              /\ tandem_matching_analysis = <<>>
              /\ total_individual_pumps = 0
              /\ BandSum = 0

\* the only table is Tandem and all its records have Eff%P1 alone: nothing
\* is counted
C8_Witness ==
    /\ EffDone
    /\ Len(pump_data) = 1
    /\ pump_data[1].type = "Tandem"
    /\ pump_data[1].count > 0
    /\ \A k \in Records(1) :
          Reading(1, k, EffP1) > 0 /\ Reading(1, k, EffP2) = 0
    /\ NotBothPositive # {}
    /\ tandem_matching_analysis = <<>>
    /\ total_individual_pumps = 0
    /\ efficiency_ranges = [b \in Bands |-> 0]

(***************************************************************************)
(* Properties of the amperage analysis and of its report section           *)
(***************************************************************************)
AmpDone == pc \in {"amp_done", "eff_done", "done"}

\* the amperage columns of a condition
AmpCols(condition) == {P1Col(condition), P2Col(condition)}

\* every amperage reading of the condition is 0 or its column is absent
NoReading(condition) ==
    \A i \in Ingested : \A col \in AmpCols(condition) : \A k \in Records(i) :
        Reading(i, k, col) = 0

\* the records of the tables that have the columns the analysis of the
\* condition reads: P1 for a Single table, P1 and P2 for a Tandem table
AnalysedRecords(condition) ==
    UNION {{<<i, k>> : k \in Records(i)} :
           i \in {j \in Ingested :
                     IF pump_data[j].type = "Single"
                     THEN P1Col(condition) \in pump_data[j].data.columns
                     ELSE AmpCols(condition) \subseteq pump_data[j].data.columns}}

\* the same line: the same format string with the same arguments
SameLine(x, y) == x.t = y.t /\ x.a = y.a

\* the positions in the report of the lines between the heading of the
\* condition and the next empty line
BlockStart(condition) ==
    CHOOSE i \in 1..Len(report) :
        SameLine(report[i],
                 Line1("{condition_name} Conditions:", ConditionName(condition)))

BlockEnd(condition) ==
    CHOOSE j \in (BlockStart(condition) + 1)..Len(report) :
        /\ SameLine(report[j], Line(""))
        /\ \A h \in (BlockStart(condition) + 1)..(j - 1) :
              ~SameLine(report[h], Line(""))

Block(condition) == (BlockStart(condition) + 1)..(BlockEnd(condition) - 1)

\* the block of the condition has the line / has that line and no other
InBlock(l, condition) == \E h \in Block(condition) : SameLine(report[h], l)

OnlyInBlock(l, condition) ==
    /\ Block(condition) # {}
    /\ \A h \in Block(condition) : SameLine(report[h], l)

MinMaxLines(condition) ==
    {h \in Block(condition) :
        report[h].t \in {"  Minimum amperage: {:.2f} A",
                         "  Maximum amperage: {:.2f} A"}}

\* C6 as stated: when every amperage reading of a condition is 0 or absent,
\* the block of the condition has the line "  No data available" and no
\* minimum or maximum line
C6_NoReadingNoData ==
    pc = "done" =>
        \A c \in {"0_bar", "200_bar"} :
            NoReading(c) =>
                /\ InBlock(Line("  No data available"), c)
                /\ MinMaxLines(c) = {}

\* C6 amended: when every amperage reading of a condition is 0 or absent,
\* the block of the condition has no minimum or maximum line; it has the
\* line "  No data available" exactly when no record belongs to a table with
\* the columns the analysis reads, and the line "  Total units analyzed: N"
\* with the number N of those records otherwise
C6_NoReadingNoMinMax ==
    pc = "done" =>
        \A c \in {"0_bar", "200_bar"} :
            NoReading(c) =>
                /\ MinMaxLines(c) = {}
                /\ InBlock(Line("  No data available"), c)
                       <=> AnalysedRecords(c) = {}
                /\ AnalysedRecords(c) # {} =>
                       OnlyInBlock(Line1("  Total units analyzed: {}",
                                         Cardinality(AnalysedRecords(c))), c)
                /\ AnalysedRecords(c) = {} =>
                       OnlyInBlock(Line("  No data available"), c)

\* the 0 bar columns are there, with records that all read 0: the block
\* counts the units and does not say that no data is available, while the
\* 200 bar block, whose columns are absent, does
C6_Witness ==
    /\ pc = "done"
    /\ NoReading("0_bar")
    /\ \E i \in Ingested :
          /\ Amp0P1 \in pump_data[i].data.columns
          /\ pump_data[i].count > 0
    /\ ~InBlock(Line("  No data available"), "0_bar")
    /\ MinMaxLines("0_bar") = {}
    /\ NoReading("200_bar")
    /\ InBlock(Line("  No data available"), "200_bar")

\* the entries of the matching analysis of both conditions
AmpEntries ==
    UNION {{amp_analysis[c].tandem_analysis[j] :
               j \in 1..Len(amp_analysis[c].tandem_analysis)} :
           c \in {"0_bar", "200_bar"}}

\* the float is a whole number
IsWhole(a) == a.e >= 0 \/ a.m % Pow2(-a.e) = 0

\* the entry's stored difference is the exact |p1 - p2|
ExactDifference(u) ==
    /\ IsWhole(u.difference)
    /\ FToInt(u.difference) = Abs(u.p1_amp - u.p2_amp)

\* the rounding allowance of a percentage, in hundredths of a percent
PctSlack == 10000 \div MantLow + 1

\* C9 as stated: each matching entry has two positive readings, the exact
\* difference |p1 - p2|, and a percentage of at least 0 and below 100
C9_PercentageBelow100 ==
    AmpDone =>
        \A u \in AmpEntries :
            /\ u.p1_amp > 0 /\ u.p2_amp > 0
            /\ ExactDifference(u)
            /\ FGe(u.percentage_diff, FZero)
            /\ FGt(FromInt(100), u.percentage_diff)

\* C9 amended: each matching entry has two positive readings; its
\* difference is |p1 - p2| rounded to the precision of the floating point
\* format and its percentage is difference / max(p1, p2) * 100 up to
\* rounding, at least 0 and at most 100, and below 100 whenever the
\* difference is exact; equal readings give 0
C9_PercentageAtMost100 ==
    AmpDone =>
        \A u \in AmpEntries :
            /\ u.p1_amp > 0 /\ u.p2_amp > 0
            /\ IsWhole(u.difference)
            /\ Abs(FToInt(u.difference) - Abs(u.p1_amp - u.p2_amp)) * MantTop
                   <= Abs(u.p1_amp - u.p2_amp)
            /\ FGe(u.percentage_diff, FZero)
            /\ FGe(FromInt(100), u.percentage_diff)
            /\ ExactDifference(u) => FGt(FromInt(100), u.percentage_diff)
            /\ u.p1_amp = u.p2_amp => u.percentage_diff = FZero
            /\ Abs(Fmt(u.percentage_diff, 2) * Max2(u.p1_amp, u.p2_amp)
                     - 10000 * FToInt(u.difference))
                   <= PctSlack * Max2(u.p1_amp, u.p2_amp)

\* a pair whose smaller reading is lost in the rounding of the difference:
\* the difference is the larger reading and the percentage is 100
C9_Witness ==
    /\ AmpDone
    /\ \E u \in AmpEntries :
          /\ u.p1_amp = 1
          /\ u.p2_amp = BigAmp
          /\ u.difference = FromInt(BigAmp)
          /\ u.percentage_diff = FromInt(100)

\* the workbook of the scenario: one sheet "TandemPump" with one record
Scenario2 ==
    << [label |-> LblTandemPump,
        columns |-> {EffP1, EffP2, Amp0P1, Amp0P2},
        rows |-> << Eff9195 @@ (Amp0P1 :> 10) @@ (Amp0P2 :> 12) >>] >>

\* C10: the sheet "TandemPump" with the record Eff%P1 91, Eff%P2 95, 0 Bar
\* Amp P1 10, 0 Bar Amp P2 12 is Tandem; it yields one efficiency match with
\* difference 4 and average 93, the bands 1, 0, 1, a total of 2 individual
\* pumps, one 0 bar amperage match whose percentage is 2/12*100 (16.67 up
\* to the rounding of the floating point format), above the threshold of 10,
\* and a report that counts 1 unit with >10% P1/P2 difference
C10_Scenario2 ==
    workbook = Scenario2 =>
        /\ pc # "start" =>
              /\ Len(pump_data) = 1
              /\ pump_data[1].type = "Tandem"
        /\ AmpDone =>
              /\ Len(amp_analysis["0_bar"].tandem_analysis) = 1
              /\ amp_analysis["200_bar"].tandem_analysis = <<>>
              /\ amp_analysis["0_bar"].tandem_analysis[1].difference = FromInt(2)
              /\ amp_analysis["0_bar"].tandem_analysis[1].percentage_diff
                     = FMulInt(FDiv(FromInt(2), FromInt(12)), 100)
              /\ Abs(Fmt(amp_analysis["0_bar"].tandem_analysis[1].percentage_diff, 2)
                       - 1667) <= PctSlack
              /\ FGt(amp_analysis["0_bar"].tandem_analysis[1].percentage_diff,
                     FromInt(AmpMismatchThreshold))
        /\ EffDone =>
              /\ Len(tandem_matching_analysis) = 1
              /\ tandem_matching_analysis[1].difference = FromInt(4)
              /\ tandem_matching_analysis[1].average_eff = FromInt(93)
              /\ efficiency_ranges =
                     [b \in Bands |-> IF b = "92_to_94" THEN 0 ELSE 1]
              /\ total_individual_pumps = 2
        /\ pc = "done" =>
              InBlock(Line1("    - Units with >10% P1/P2 difference: {}", 1),
                      "0_bar")

\* the run over the workbook of the scenario has produced its report
C10_Witness ==
    /\ workbook = Scenario2
    /\ pc = "done"
    /\ total_individual_pumps = 2
    /\ InBlock(Line1("    - Units with >10% P1/P2 difference: {}", 1), "0_bar")

Positions(rep, t) == {i \in 1..Len(rep) : rep[i].t = t}

\* a report with its title, the configuration section, the amperage section
\* with a block for 0 bar and a block for 200 bar, each closed by the count
\* of units or by the no-data line, and the efficiency section with its
\* three bands
FullReport(rep) ==
    /\ Len(rep) > 0
    /\ rep[1].t = "PUMP PERFORMANCE TEST REPORT"
    /\ \E a \in Positions(rep, "PUMP CONFIGURATION ANALYSIS:") :
       \E b \in Positions(rep, "AMPERAGE ANALYSIS:") :
       \E c0 \in Positions(rep, "{condition_name} Conditions:") :
       \E c1 \in Positions(rep, "{condition_name} Conditions:") :
       \E d \in Positions(rep, "EFFICIENCY ANALYSIS:") :
       \E z \in Positions(rep, "94% and above: {} pumps") :
          /\ 1 < a /\ a < b /\ b < c0 /\ c0 < c1 /\ c1 < d /\ d < z
          /\ rep[c0].a = <<"0 Bar">>
          /\ rep[c1].a = <<"200 Bar">>
          /\ \E u \in (c0 + 1)..(c1 - 1) :
                rep[u].t \in {"  Total units analyzed: {}", "  No data available"}
          /\ \E u \in (c1 + 1)..(d - 1) :
                rep[u].t \in {"  Total units analyzed: {}", "  No data available"}

\* the tables without records, and the tables with records none of which has
\* a positive reading
EmptyTables == {i \in Ingested : pump_data[i].count = 0}

TablesWithoutReading ==
    {i \in Ingested \ EmptyTables :
        \A k \in Records(i) : \A col \in pump_data[i].data.columns :
            Reading(i, k, col) = 0}

\* C12: on the tables of every upload, empty tables, tables without some
\* columns and tables without a positive reading included, the three
\* functions return their results (also when the run stops for lack of
\* records) and the report is a full one; the report of the run is that
\* report
C12_NoConditionAborts ==
    pc # "start" =>
        LET amp == analyze_amperage(pump_data)
            eff == analyze_efficiency_distribution(pump_data)
            rep == generate_report_content(pump_data, amp, eff.ranges,
                                           eff.total, eff.matches)
        IN  /\ \A c \in {"0_bar", "200_bar"} :
                  /\ amp[c].min \in 0..(Inf - 1)
                  /\ amp[c].max \in 0..(Inf - 1)
                  /\ amp[c].unit_count \in 0..MaxRows
            /\ eff.total \in 0..(2 * MaxRows)
            /\ Len(eff.matches) <= MaxRows
            /\ FullReport(rep)
            /\ pc \in {"done", "done_again"} => report = rep

\* the report of a workbook with an empty table and a table whose records
\* have no positive reading and no 200 bar column
C12_Witness ==
    /\ pc = "done"
    /\ EmptyTables # {}
    /\ \E i \in TablesWithoutReading :
          Amp200P1 \notin pump_data[i].data.columns
    /\ FullReport(report)
    /\ InBlock(Line("  No data available"), "200_bar")

\* all the records of all the tables
AllRecords == UNION {{<<i, k>> : k \in Records(i)} : i \in Ingested}

\* the position of the heading of the configuration summary
ConfigStart ==
    CHOOSE i \in 1..Len(report) : report[i].t = "PUMP CONFIGURATION ANALYSIS:"

\* C13: the configuration summary has one line per table in input order,
\* worded by the type of the table, then the total of units, which is the
\* number of records of all tables (a Tandem record counted once), then the
\* total of individual pumps, which is the total of the efficiency analysis:
\* one per positive Single reading, two per two-sided Tandem record
C13_ConfigurationSummary ==
    pc = "done" =>
        /\ \A i \in Ingested :
              SameLine(report[ConfigStart + 1 + i],
                  IF pump_data[i].type = "Tandem"
                  THEN Line2("{sheet_name}: {count} Tandem units (each with 2 pumps)",
                             pump_data[i].sheet_name,
                             Len(pump_data[i].data.rows))
                  ELSE Line2("{sheet_name}: {count} Single pump units",
                             pump_data[i].sheet_name,
                             Len(pump_data[i].data.rows)))
        /\ SameLine(report[ConfigStart + 2 + Len(pump_data)],
               Line1("Total units tested: {total_units}",
                     Cardinality(AllRecords)))
        /\ SameLine(report[ConfigStart + 3 + Len(pump_data)],
               Line1("Total individual pumps: {total_efficiency_readings}",
                     total_individual_pumps))
        /\ total_individual_pumps =
               Cardinality(SinglePositive) + 2 * Cardinality(BothPositive)

\* a Single table and a Tandem table with one record each, both efficiency
\* readings of the Tandem record positive: 2 units, 3 individual pumps
C13_Witness ==
    /\ pc = "done"
    /\ Len(pump_data) = 2
    /\ pump_data[1].type = "Single"
    /\ pump_data[2].type = "Tandem"
    /\ Cardinality(SinglePositive) = 1
    /\ Cardinality(BothPositive) = 1
    /\ SameLine(report[ConfigStart + 4],
           Line1("Total units tested: {total_units}", 2))
    /\ SameLine(report[ConfigStart + 5],
           Line1("Total individual pumps: {total_efficiency_readings}", 3))

(***************************************************************************)
(* Properties of the amperage statistics                                   *)
(***************************************************************************)
\* the tables whose records the analysis of the condition reads
AnalysedSingle(condition) ==
    {i \in SingleTables : P1Col(condition) \in pump_data[i].data.columns}

AnalysedTandem(condition) ==
    {i \in TandemTables : AmpCols(condition) \subseteq pump_data[i].data.columns}

\* the records of Tandem tables with both amperages of the condition positive
AmpBothPositive(condition) ==
    UNION {{<<i, k>> : k \in {r \in Records(i) :
                                 /\ Reading(i, r, P1Col(condition)) > 0
                                 /\ Reading(i, r, P2Col(condition)) > 0}} :
           i \in AnalysedTandem(condition)}

\* the readings folded into min and max: the positive P1 readings of Single
\* tables and both readings of the two-sided records of Tandem tables
FoldedReadings(condition) ==
    UNION {{Reading(i, k, P1Col(condition)) :
               k \in {r \in Records(i) : Reading(i, r, P1Col(condition)) > 0}} :
           i \in AnalysedSingle(condition)}
        \cup {Reading(u[1], u[2], col) :
                 u \in AmpBothPositive(condition), col \in AmpCols(condition)}

\* the tables that come into the count of units without a folded reading
TablesNothingFolded(condition) ==
    {i \in AnalysedSingle(condition) :
        \A k \in Records(i) : Reading(i, k, P1Col(condition)) <= 0}
        \cup {i \in AnalysedTandem(condition) :
                 \A u \in AmpBothPositive(condition) : u[1] # i}

\* C14: after all tables are folded the min of a condition is 0 exactly when
\* no reading was folded for it, and is the smallest folded reading of all
\* tables otherwise, wherever the tables without positive readings stand
C14_MinOverAllTables ==
    AmpDone =>
        \A c \in {"0_bar", "200_bar"} :
            /\ amp_analysis[c].min = 0 <=> FoldedReadings(c) = {}
            /\ FoldedReadings(c) # {} =>
                  /\ amp_analysis[c].min \in FoldedReadings(c)
                  /\ \A x \in FoldedReadings(c) : amp_analysis[c].min <= x

\* a table with records and no positive 0 bar reading stands before a table
\* with positive readings: the minimum is the smallest of these
C14_Witness ==
    /\ AmpDone
    /\ Len(pump_data) = 2
    /\ 1 \in TablesNothingFolded("0_bar")
    /\ pump_data[1].count > 0
    /\ 2 \notin TablesNothingFolded("0_bar")
    /\ FoldedReadings("0_bar") # {}
    /\ amp_analysis["0_bar"].min > 0

\* the records of analysed Tandem tables with exactly one amperage of the
\* condition positive
AmpOneSided(condition) ==
    UNION {{<<i, k>> : k \in {r \in Records(i) :
                                 (Reading(i, r, P1Col(condition)) > 0)
                                     # (Reading(i, r, P2Col(condition)) > 0)}} :
           i \in AnalysedTandem(condition)}

\* C15: in a Tandem table with both columns of a condition, the records
\* with a match entry, and with their two readings folded into min and max,
\* are exactly the records with both amperages positive; a record with one
\* positive side has no entry and changes neither min nor max
C15_BothSidesPositive ==
    AmpDone =>
        \A c \in {"0_bar", "200_bar"} :
            LET entries == amp_analysis[c].tandem_analysis
            IN  /\ Len(entries) = Cardinality(AmpBothPositive(c))
                /\ \A j \in 1..Len(entries) :
                      /\ entries[j].p1_amp > 0
                      /\ entries[j].p2_amp > 0
                /\ {<<entries[j].p1_amp, entries[j].p2_amp>> :
                       j \in 1..Len(entries)}
                     = {<<Reading(u[1], u[2], P1Col(c)),
                          Reading(u[1], u[2], P2Col(c))>> :
                           u \in AmpBothPositive(c)}
                /\ FoldedReadings(c) = {} =>
                      amp_analysis[c].min = 0 /\ amp_analysis[c].max = 0
                /\ FoldedReadings(c) # {} =>
                      /\ amp_analysis[c].max \in FoldedReadings(c)
                      /\ \A x \in FoldedReadings(c) :
                            amp_analysis[c].min <= x /\ x <= amp_analysis[c].max

\* the only table is Tandem and its records have one positive 0 bar side
\* each: no entry, min and max stay 0, the units are counted
C15_Witness ==
    /\ AmpDone
    /\ Len(pump_data) = 1
    /\ AnalysedTandem("0_bar") = {1}
    /\ AmpOneSided("0_bar") = AllRecords
    /\ pump_data[1].count > 0
    /\ amp_analysis["0_bar"].tandem_analysis = <<>>
    /\ amp_analysis["0_bar"].min = 0
    /\ amp_analysis["0_bar"].max = 0
    /\ amp_analysis["0_bar"].unit_count = pump_data[1].count

\* C16: the unit_count of a condition is the number of records of the
\* tables analysed for it (Single with the P1 column, Tandem with the P1 and
\* the P2 column): every record once, with or without positive readings
C16_UnitCountIsRecordCount ==
    AmpDone =>
        \A c \in {"0_bar", "200_bar"} :
            amp_analysis[c].unit_count =
                Cardinality({u \in AllRecords :
                    u[1] \in AnalysedSingle(c) \cup AnalysedTandem(c)})

\* a Tandem table with two records, one with both 0 bar readings positive
\* and one without any: two units
C16_Witness ==
    /\ AmpDone
    /\ Len(pump_data) = 1
    /\ AnalysedTandem("0_bar") = {1}
    /\ pump_data[1].count = 2
    /\ Cardinality(AmpBothPositive("0_bar")) = 1
    /\ \E k \in Records(1) :
          Reading(1, k, Amp0P1) = 0 /\ Reading(1, k, Amp0P2) = 0
    /\ amp_analysis["0_bar"].unit_count = 2

\* the other condition
OtherCondition(condition) == IF condition = "0_bar" THEN "200_bar" ELSE "0_bar"

\* the Tandem tables that lack the P1 or the P2 column of the condition
SkippedTandem(condition) == TandemTables \ AnalysedTandem(condition)

\* C17: folding a Tandem table that lacks the P1 or the P2 column of a
\* condition leaves min, max, unit_count and the match list of that
\* condition as they were, also when the column that is there has positive
\* readings; the other condition of the table, when it has both columns, is
\* folded, and the final statistics cover the records of all analysed tables
C17_MissingColumnSkipsPair ==
    AmpDone =>
        \A c \in {"0_bar", "200_bar"} :
            /\ \A i \in SkippedTandem(c) :
                  LET before == AmpFold(SubSeq(pump_data, 1, i - 1))
                      after == AmpFold(SubSeq(pump_data, 1, i))
                      o == OtherCondition(c)
                  IN  /\ after[c] = before[c]
                      /\ i \in AnalysedTandem(o) =>
                            /\ after[o].unit_count =
                                   before[o].unit_count + pump_data[i].count
                            /\ Len(after[o].tandem_analysis) =
                                   Len(before[o].tandem_analysis)
                                     + Cardinality({u \in AmpBothPositive(o) :
                                                       u[1] = i})
            /\ amp_analysis[c].unit_count =
                   Cardinality({u \in AllRecords :
                       u[1] \in (SingleTables \cup TandemTables)
                                    \ SkippedTandem(c)
                       /\ P1Col(c) \in pump_data[u[1]].data.columns})
            /\ Len(amp_analysis[c].tandem_analysis) =
                   Cardinality(AmpBothPositive(c))

\* a Tandem table with positive 0 bar readings on P1, without the 0 bar P2
\* column and with both 200 bar columns, followed by a Tandem table with
\* both 0 bar columns: the first is left out at 0 bar only
C17_Witness ==
    /\ AmpDone
    /\ Len(pump_data) = 2
    /\ 1 \in SkippedTandem("0_bar") \cap AnalysedTandem("200_bar")
    /\ \E k \in Records(1) : Reading(1, k, Amp0P1) > 0
    /\ 2 \in AnalysedTandem("0_bar")
    /\ pump_data[2].count > 0
    /\ amp_analysis["0_bar"].unit_count = pump_data[2].count
    /\ amp_analysis["200_bar"].unit_count = pump_data[1].count
    /\ amp_analysis["200_bar"].tandem_analysis # <<>>

(***************************************************************************)
(* Properties of the matching summaries of the report                      *)
(***************************************************************************)
MatchingHeading == "TANDEM PUMP MATCHING (P1 vs P2):"

\* the tables with every stored type replaced by Single
AllSingle(tables) ==
    [i \in 1..Len(tables) |-> [tables[i] EXCEPT !.type = "Single"]]

\* C18: the report has the section TANDEM PUMP MATCHING (P1 vs P2) exactly
\* when a table is Tandem and there is an efficiency match; it then follows
\* the line of the highest band, and without it that line ends the report;
\* the same matches reported for tables that are all Single give no section
C18_MatchingSectionCondition ==
    pc = "done" =>
        LET band == Positions(report, "94% and above: {} pumps")
            heading == Positions(report, MatchingHeading)
            rep == generate_report_content(AllSingle(pump_data), amp_analysis,
                       efficiency_ranges, total_individual_pumps,
                       tandem_matching_analysis)
        IN  /\ heading # {}
                  <=> (TandemTables # {} /\ tandem_matching_analysis # <<>>)
            /\ Cardinality(band) = 1
            /\ heading = {} => band = {Len(report)}
            /\ heading # {} => heading = {b + 2 : b \in band}
            /\ Positions(rep, MatchingHeading) = {}
            /\ rep[Len(rep)].t = "94% and above: {} pumps"

\* a Tandem table whose records have one efficiency side each: no match,
\* and the report ends with the line of the highest band
C18_Witness ==
    /\ pc = "done"
    /\ TandemTables # {}
    /\ NotBothPositive # {}
    /\ tandem_matching_analysis = <<>>
    /\ Positions(report, MatchingHeading) = {}
    /\ report[Len(report)].t = "94% and above: {} pumps"

\* the lines of the block of the condition with the format string t
BlockLines(condition, t) == {h \in Block(condition) : report[h].t = t}

\* the positions in the match list of the units above the threshold
AmpMismatched(condition) ==
    {j \in 1..Len(amp_analysis[condition].tandem_analysis) :
        FGt(amp_analysis[condition].tandem_analysis[j].percentage_diff,
            FromInt(10))}

\* C19: in the block of a condition with matches, the units counted as
\* mismatched are those with percentage_diff above 10, exactly 10 excluded;
\* with such units the line Worst mismatch names the one with the largest
\* percentage_diff, the first of them in input order, and the line of the
\* tolerance is absent; without such units it is the other way round
C19_AmpMismatchSummary ==
    pc = "done" =>
        \A c \in {"0_bar", "200_bar"} :
            LET entries == amp_analysis[c].tandem_analysis
                worst == BlockLines(c, "    - Worst mismatch: {:.1f}% (Unit {})")
                within == BlockLines(c, "    - All tandem units within 10% tolerance")
            IN  entries # <<>> =>
                  /\ InBlock(Line1("    - Units with >10% P1/P2 difference: {}",
                                   Cardinality(AmpMismatched(c))), c)
                  /\ \A j \in 1..Len(entries) :
                        entries[j].percentage_diff = FromInt(10)
                            => j \notin AmpMismatched(c)
                  /\ AmpMismatched(c) = {} =>
                        worst = {} /\ Cardinality(within) = 1
                  /\ AmpMismatched(c) # {} =>
                        /\ within = {}
                        /\ Cardinality(worst) = 1
                        /\ \E j \in AmpMismatched(c) :
                              /\ \A k \in 1..Len(entries) :
                                    FGe(entries[j].percentage_diff,
                                        entries[k].percentage_diff)
                              /\ \A k \in 1..(j - 1) :
                                    FGt(entries[j].percentage_diff,
                                        entries[k].percentage_diff)
                              /\ \A h \in worst :
                                    report[h].a =
                                        <<Fmt(entries[j].percentage_diff, 1),
                                          entries[j].unit_id>>

\* two units of one table with the same percentage above 10: two
\* mismatched units, the first one is named
C19_Witness ==
    /\ pc = "done"
    /\ LET entries == amp_analysis["0_bar"].tandem_analysis
       IN  /\ Len(entries) = 2
           /\ entries[1].percentage_diff = entries[2].percentage_diff
           /\ entries[1].unit_id # entries[2].unit_id
           /\ AmpMismatched("0_bar") = {1, 2}
           /\ InBlock(Line2("    - Worst mismatch: {:.1f}% (Unit {})",
                            Fmt(entries[1].percentage_diff, 1),
                            entries[1].unit_id), "0_bar")

\* the absolute efficiency difference of match j
EffGap(j) ==
    Abs(tandem_matching_analysis[j].p1_eff - tandem_matching_analysis[j].p2_eff)

\* the positions in the match list of the units above the threshold
EffMismatched == {j \in 1..Len(tandem_matching_analysis) : EffGap(j) > 3}

\* C20: in the matching section of the efficiency analysis, the units
\* counted as mismatched are those with |Eff%P1 - Eff%P2| above 3, exactly
\* 3 excluded; with such units the line Worst efficiency mismatch names the
\* one with the largest difference, the first of them in input order, and
\* the line of the tolerance is absent; without such units it is the other
\* way round
C20_EffMismatchSummary ==
    (pc = "done" /\ tandem_matching_analysis # <<>>) =>
        LET count == Positions(report, "Units with >3% efficiency difference: {}")
            worst == Positions(report, "Worst efficiency mismatch: {:.2f}% (Unit {})")
            within == Positions(report, "All tandem units within 3% efficiency tolerance")
        IN  /\ Cardinality(count) = 1
            /\ \A h \in count : report[h].a = <<Cardinality(EffMismatched)>>
            /\ EffMismatched = {} => worst = {} /\ Cardinality(within) = 1
            /\ EffMismatched # {} =>
                  /\ within = {}
                  /\ Cardinality(worst) = 1
                  /\ \E j \in EffMismatched :
                        /\ \A k \in 1..Len(tandem_matching_analysis) :
                              EffGap(j) >= EffGap(k)
                        /\ \A k \in 1..(j - 1) : EffGap(j) > EffGap(k)
                        /\ \A h \in worst :
                              report[h].a =
                                  <<100 * EffGap(j),
                                    tandem_matching_analysis[j].unit_id>>

\* a unit with a difference of exactly 3 before a unit with a difference of
\* 4: one mismatched unit, the second one is named
C20_Witness ==
    /\ pc = "done"
    /\ Len(tandem_matching_analysis) = 2
    /\ EffGap(1) = 3
    /\ EffGap(2) = 4
    /\ EffMismatched = {2}
    /\ \E h \in Positions(report, "Worst efficiency mismatch: {:.2f}% (Unit {})") :
          report[h].a = <<400, tandem_matching_analysis[2].unit_id>>

(***************************************************************************)
(* Properties of the order and of the stored configuration of the tables   *)
(***************************************************************************)
\* the orders in which n tables can stand
Orders(n) ==
    {f \in [1..n -> 1..n] : \A i, j \in 1..n : f[i] = f[j] => i = j}

\* the tables in the order f
Reordered(f) == [i \in 1..Len(pump_data) |-> pump_data[f[i]]]

\* C21: in whatever order the same tables stand, analyze_amperage gives the
\* same min, max, unit_count and number of match entries for each condition,
\* and analyze_efficiency_distribution the same band counts, the same total
\* and the same number of match entries
C21_TableOrderIrrelevant ==
    pc = "done" =>
        \A f \in Orders(Len(pump_data)) :
            LET amp == analyze_amperage(Reordered(f))
                eff == analyze_efficiency_distribution(Reordered(f))
            IN  /\ \A c \in {"0_bar", "200_bar"} :
                      /\ amp[c].min = amp_analysis[c].min
                      /\ amp[c].max = amp_analysis[c].max
                      /\ amp[c].unit_count = amp_analysis[c].unit_count
                      /\ Len(amp[c].tandem_analysis)
                             = Len(amp_analysis[c].tandem_analysis)
                /\ eff.ranges = efficiency_ranges
                /\ eff.total = total_individual_pumps
                /\ Len(eff.matches) = Len(tandem_matching_analysis)

\* two tables with one efficiency match each, of different units: the other
\* order gives the same numbers and another match list
C21_Witness ==
    /\ pc = "done"
    /\ Len(pump_data) = 2
    /\ Len(tandem_matching_analysis) = 2
    /\ amp_analysis["0_bar"].max > amp_analysis["0_bar"].min
    /\ amp_analysis["0_bar"].min > 0
    /\ \E f \in Orders(2) :
          /\ f[1] = 2
          /\ analyze_efficiency_distribution(Reordered(f)).matches
                 # tandem_matching_analysis
          /\ analyze_efficiency_distribution(Reordered(f)).total
                 = total_individual_pumps

\* C22: the type and the count of a table are stored when it is ingested,
\* as determine_pump_type and the number of records give them, and no later
\* step changes them; the three functions go by the stored type: on the
\* same tables with every stored type set to Single they find no match, count
\* one pump per positive Eff%P1 and report Single pump units only
C22_ConfigurationAssignedOnce ==
    [][/\ pc = "start" =>
             \A i \in 1..Len(pump_data') :
                 /\ pump_data'[i].type =
                        determine_pump_type(pump_data'[i].data,
                                            pump_data'[i].sheet_name)
                 /\ pump_data'[i].count = Len(pump_data'[i].data.rows)
       /\ pc # "start" =>
             /\ pump_data' = pump_data
             /\ LET tables == AllSingle(pump_data)
                    amp == analyze_amperage(tables)
                    eff == analyze_efficiency_distribution(tables)
                    rep == generate_report_content(tables, amp, eff.ranges,
                                                   eff.total, eff.matches)
                IN  /\ \A c \in {"0_bar", "200_bar"} :
                          amp[c].tandem_analysis = <<>>
                    /\ eff.matches = <<>>
                    /\ eff.total =
                           Cardinality({u \in AllRecords :
                               Reading(u[1], u[2], EffP1) > 0})
                    /\ Positions(rep,
                           "{sheet_name}: {count} Tandem units (each with 2 pumps)")
                         = {}
                    /\ Cardinality(Positions(rep,
                           "{sheet_name}: {count} Single pump units"))
                         = Len(pump_data)]_vars

\* the report of a run over a Tandem table with an efficiency match and an
\* amperage match: the stored type is what the three functions went by
C22_Witness ==
    /\ pc = "done"
    /\ \E i \in Ingested :
          /\ pump_data[i].type = "Tandem"
          /\ pump_data[i].count > 0
    /\ tandem_matching_analysis # <<>>
    /\ amp_analysis["0_bar"].tandem_analysis # <<>>
    /\ Positions(report,
           "{sheet_name}: {count} Tandem units (each with 2 pumps)") # {}

\* the readings of all tables that are positive: <<table, record, column>>
PositiveEfficiencies ==
    UNION {{<<u[1], u[2], col>> :
               col \in {x \in {EffP1, EffP2} : Reading(u[1], u[2], x) > 0}} :
           u \in AllRecords}

\* C23: the total of individual pumps is the number of records of Single
\* tables with Eff%P1 > 0 plus twice the length of the match list; no
\* reading that is 0 or missing is in it
C23_TotalFromSinglesAndMatches ==
    EffDone =>
        /\ total_individual_pumps =
               Cardinality({u \in AllRecords :
                               /\ u[1] \in SingleTables
                               /\ EffP1 \in pump_data[u[1]].data.columns
                               /\ pump_data[u[1]].data.rows[u[2]][EffP1] > 0})
                 + 2 * Len(tandem_matching_analysis)
        /\ total_individual_pumps <= Cardinality(PositiveEfficiencies)

\* a Single table with a record without Eff%P1 reading and a record with
\* one: one individual pump
C23_Witness ==
    /\ EffDone
    /\ Len(pump_data) = 1
    /\ pump_data[1].type = "Single"
    /\ pump_data[1].count = 2
    /\ \E k \in Records(1) : Reading(1, k, EffP1) = 0
    /\ \E k \in Records(1) : Reading(1, k, EffP1) > 0
    /\ tandem_matching_analysis = <<>>
    /\ total_individual_pumps = 1

\* the running accumulator after the first j tables
RunningAmp(j) == AmpFold(SubSeq(pump_data, 1, j))

\* C24: in the result each condition has min = max = 0 (nothing folded) or
\* 0 < min <= max (something folded), min is never the sentinel, and after
\* each table the running max is 0 exactly when the running min is still
\* the sentinel
C24_MinMaxShape ==
    AmpDone =>
        /\ \A c \in {"0_bar", "200_bar"} :
              LET st == amp_analysis[c]
                  folded == FoldedReadings(c)
              IN  /\ \/ st.min = 0 /\ st.max = 0 /\ folded = {}
                     \/ 0 < st.min /\ st.min <= st.max /\ folded # {}
                  /\ st.min # Inf
        /\ \A j \in 0..Len(pump_data) :
              LET acc == RunningAmp(j)
              IN  \A c \in {"0_bar", "200_bar"} :
                      acc[c].max = 0 <=> acc[c].min = Inf

\* two tables: after the first the 0 bar minimum is still the sentinel, after
\* the second it is a reading; nothing is folded at 200 bar
C24_Witness ==
    /\ AmpDone
    /\ Len(pump_data) = 2
    /\ RunningAmp(1)["0_bar"].min = Inf
    /\ RunningAmp(1)["0_bar"].unit_count > 0
    /\ RunningAmp(2)["0_bar"].min < Inf
    /\ 0 < amp_analysis["0_bar"].min
    /\ amp_analysis["0_bar"].min < amp_analysis["0_bar"].max
    /\ amp_analysis["200_bar"].min = 0
    /\ amp_analysis["200_bar"].max = 0

\* C25: each condition block has exactly one of the lines "  No data
\* available" (unit_count = 0) and "  Total units analyzed: N" (unit_count
\* > 0); the minimum and maximum lines come together, exactly when max > 0
\* and only with unit_count > 0; the tandem matching block is there exactly
\* when the condition has a match entry, and only with unit_count > 0
C25_ConditionBlockLines ==
    pc = "done" =>
        \A c \in {"0_bar", "200_bar"} :
            LET block == Block(c)
                st == amp_analysis[c]
                nodata == {h \in block : report[h].t = "  No data available"}
                total ==
                    {h \in block : report[h].t = "  Total units analyzed: {}"}
                minimum ==
                    {h \in block : report[h].t = "  Minimum amperage: {:.2f} A"}
                maximum ==
                    {h \in block : report[h].t = "  Maximum amperage: {:.2f} A"}
                matching ==
                    {h \in block :
                        report[h].t = "  Tandem pump matching analysis:"}
            IN  /\ Cardinality(nodata) + Cardinality(total) = 1
                /\ nodata # {} <=> st.unit_count = 0
                /\ total # {} <=> st.unit_count > 0
                /\ \A h \in total : report[h].a = <<st.unit_count>>
                /\ Cardinality(minimum) = Cardinality(maximum)
                /\ Cardinality(minimum) <= 1
                /\ minimum # {} <=> st.max > 0
                /\ minimum # {} => st.unit_count > 0
                /\ Cardinality(matching) <= 1
                /\ matching # {} <=> st.tandem_analysis # <<>>
                /\ matching # {} => st.unit_count > 0

\* the 0 bar block has the minimum, the maximum, the matching block and the
\* total; the 200 bar block says that no data is available and nothing else
C25_Witness ==
    /\ pc = "done"
    /\ amp_analysis["0_bar"].unit_count > 0
    /\ amp_analysis["0_bar"].tandem_analysis # <<>>
    /\ BlockLines("0_bar", "  Minimum amperage: {:.2f} A") # {}
    /\ BlockLines("0_bar", "  Maximum amperage: {:.2f} A") # {}
    /\ BlockLines("0_bar", "  Tandem pump matching analysis:") # {}
    /\ BlockLines("0_bar", "  Total units analyzed: {}") # {}
    /\ BlockLines("0_bar", "  No data available") = {}
    /\ amp_analysis["200_bar"].unit_count = 0
    /\ OnlyInBlock(Line("  No data available"), "200_bar")

====
